---- MODULE Spec2Model ----
(***************************************************************************)
(* A model of src/scraper.py (class MovieScraper): discovery of candidate  *)
(* identifiers in Catalog-A (TMDB), per-candidate enrichment from          *)
(* Catalog-A and Catalog-B (OMDb), and the append-only output sink         *)
(* data/raw.jsonl.                                                         *)
(*                                                                         *)
(* Data representation.                                                    *)
(*   Python None          : None  == << >>                                 *)
(*   a non-None value v   : Some(v) == << v >>                             *)
(*   a dict               : a function whose DOMAIN is its set of keys     *)
(*   text that is parsed  : a sequence of one-character strings            *)
(*   a float quotient a/b : [num |-> a, den |-> b]                         *)
(*   a raised exception   : Raise(name)                                    *)
(***************************************************************************)
EXTENDS Integers, Sequences, FiniteSets, TLC

VARIABLES
    pc,          \* position of the process in scrape()
    runs,        \* number of scrape() calls started
    args,        \* the arguments of the running scrape() call
    year, page,  \* loop position inside discover_movies
    movie_ids,   \* the set discover_movies accumulates (line 27)
    requests,    \* the discover requests issued, in order, and how each ended
    nResults,    \* number of result entries the discover pages returned
    returned,    \* the identifiers the discover pages carried
    todo,        \* list(movie_ids) not yet iterated by the loop of line 135
    attempts,    \* per candidate: loop iterations of line 135 over it
    sink,        \* the lines of data/raw.jsonl
    before,      \* the lines of data/raw.jsonl when the run began
    sinkOpen,    \* whether the file handle f of line 134 is open
    opened,      \* number of times the run opened the sink (line 134)
    scraped,     \* "Scraped movie" messages printed by the run (line 143)
    failures,    \* the "Failed movie_id=..." messages of the run (line 148)
    omdbCalls,   \* HTTP requests the run issued to Catalog-B (line 93)
    last,        \* the last loop iteration: its inputs and what it did
    arg, ret, called   \* a single call of a function on a drawn input

vars == << pc, runs, args, year, page, movie_ids, requests, nResults, returned, todo,
           attempts, sink, before, sinkOpen, opened, scraped, failures,
           omdbCalls, last, arg, ret, called >>

-----------------------------------------------------------------------------
(* Python values *)

None == << >>

Some(v) == << v >>

Raise(name) == [exception |-> name]

IsRaise(r) == DOMAIN r = {"exception"}

\* dict.get(k)
Get(d, k) == IF k \in DOMAIN d THEN d[k] ELSE None

\* dict.get(k, default)
GetOr(d, k, default) == IF k \in DOMAIN d THEN d[k] ELSE default

\* {**a, **b}: the keys of both, b's value where both have the key
Merge(a, b) == b @@ a

\* Python truthiness of an optional string: None and "" are falsy
Truthy(v) == v # None /\ v[1] # ""

Last(s) == s[Len(s)]

Front(s) == SubSeq(s, 1, Len(s) - 1)

RECURSIVE SumSeq(_)
SumSeq(s) == IF s = << >> THEN 0 ELSE s[1] + SumSeq(Tail(s))

RECURSIVE MaxSeq(_)
MaxSeq(s) ==
    IF Len(s) = 1 THEN s[1]
    ELSE LET m == MaxSeq(Tail(s)) IN IF s[1] >= m THEN s[1] ELSE m

\* All sequences over S of length at most n
SeqsUpTo(S, n) == UNION { [1..k -> S] : k \in 0..n }

-----------------------------------------------------------------------------
(* Text: str.replace, str.split, int(), float() *)

Digits == <<"0", "1", "2", "3", "4", "5", "6", "7", "8", "9">>

IsDigit(c) == \E i \in 1..10 : Digits[i] = c

DigitVal(c) == (CHOOSE i \in 1..10 : Digits[i] = c) - 1

\* s.replace(ch, "")
str_remove(s, ch) == SelectSeq(s, LAMBDA c : c # ch)

\* s.split(sep)[0]
RECURSIVE str_split_first(_, _)
str_split_first(s, sep) ==
    IF s = << >> \/ s[1] = sep THEN << >>
    ELSE << s[1] >> \o str_split_first(Tail(s), sep)

\* int(s) succeeds on a non-empty run of decimal digits
IntOk(s) == s # << >> /\ \A i \in 1..Len(s) : IsDigit(s[i])

RECURSIVE IntVal(_)
IntVal(s) == IF s = << >> THEN 0 ELSE IntVal(Front(s)) * 10 + DigitVal(Last(s))

RECURSIVE Pow10(_)
Pow10(n) == IF n = 0 THEN 1 ELSE 10 * Pow10(n - 1)

\* float(s) succeeds on digits with at most one decimal point
FloatOk(s) ==
    LET d == str_remove(s, ".")
    IN  /\ IntOk(d)
        /\ Len(s) - Len(d) <= 1

FloatVal(s) ==
    LET d == str_remove(s, ".")
        frac == IF Len(d) = Len(s) THEN 0
                ELSE Len(s) - Len(str_split_first(s, ".")) - 1
    IN  [num |-> IntVal(d), den |-> Pow10(frac)]

-----------------------------------------------------------------------------
(* Catalog-A client and PrimaryRecord *)

HTTP_OK == 200

\* requests' raise_for_status raises for 4xx and 5xx
RaiseForStatusFloor == 400

\* tmdb_get: the JSON body, or HTTPError
tmdb_get(resp) ==
    IF resp.status >= RaiseForStatusFloor THEN Raise("HTTPError") ELSE resp.body

FallbackOrder == 99

TopCast == 3

cast_key_first(x) == GetOr(x, "order", 0)

cast_key(x) == GetOr(x, "order", FallbackOrder)

\* insert x behind every element whose key is <= its own
RECURSIVE InsertSorted(_, _)
InsertSorted(s, x) ==
    IF s = << >> THEN << x >>
    ELSE IF cast_key(Last(s)) <= cast_key(x) THEN Append(s, x)
    ELSE Append(InsertSorted(Front(s), x), Last(s))

\* sorted(cast, key=lambda x: x.get("order", 99)): a stable sort
RECURSIVE sorted_cast(_)
sorted_cast(s) ==
    IF s = << >> THEN << >> ELSE InsertSorted(sorted_cast(Front(s)), Last(s))

top_cast(credits) ==
    LET s == sorted_cast(GetOr(credits, "cast", << >>))
    IN  SubSeq(s, 1, IF Len(s) < TopCast THEN Len(s) ELSE TopCast)

\* [c.get("popularity", 0) for c in cast]; an entry is None or Some(number)
cast_pops(credits) ==
    LET cast == top_cast(credits)
    IN  [i \in 1..Len(cast) |-> GetOr(cast[i], "popularity", Some(0))]

RECURSIVE director_popularity(_)
director_popularity(crew) ==
    IF crew = << >> THEN None
    ELSE IF Get(crew[1], "job") = Some("Director")
         THEN Get(crew[1], "popularity")
         ELSE director_popularity(Tail(crew))

TmdbKeys ==
    << "movie_id", "title", "release_date", "budget", "revenue_worldwide",
       "runtime", "genres", "imdb_id", "franchise", "cast_popularity_mean",
       "cast_popularity_max", "director_popularity", "original_language" >>

\* the dict of lines 65-81, given cast_pops
record_of(movie_id, details, credits, opts) ==
    LET pops == [i \in 1..Len(opts) |-> opts[i][1]]
        genres == GetOr(details, "genres", << >>)
    IN  IF \E i \in 1..Len(genres) : "name" \notin DOMAIN genres[i]
        THEN Raise("KeyError")      \* g["name"], line 72
        ELSE IF \E i \in 1..Len(opts) : opts[i] = None
        THEN Raise("TypeError")     \* sum() over a None, line 76
        ELSE
        [ movie_id |-> movie_id,
          title |-> Get(details, "title"),
          release_date |-> Get(details, "release_date"),
          budget |-> Get(details, "budget"),
          revenue_worldwide |-> Get(details, "revenue"),
          runtime |-> Get(details, "runtime"),
          genres |-> [i \in 1..Len(genres) |-> genres[i]["name"]],
          imdb_id |-> Get(details, "imdb_id"),
          franchise |-> Get(details, "belongs_to_collection") # None,
          cast_popularity_mean |->
              IF pops # << >>
              THEN Some([num |-> SumSeq(pops), den |-> Len(pops)]) ELSE None,
          cast_popularity_max |->
              IF pops # << >> THEN Some(MaxSeq(pops)) ELSE None,
          director_popularity |->
              director_popularity(GetOr(credits, "crew", << >>)),
          original_language |-> Get(details, "original_language") ]

\* lines 53-81 (cast_pops is computed once)
primary_record(movie_id, details, credits) ==
    CHOOSE r \in { record_of(movie_id, details, credits, opts) :
                       opts \in {cast_pops(credits)} } : TRUE

\* get_tmdb_record: two requests, then the record
get_tmdb_record(movie_id, detailsResp, creditsResp) ==
    LET details == tmdb_get(detailsResp)
        credits == tmdb_get(creditsResp)
    IN  IF IsRaise(details) THEN details
        ELSE IF IsRaise(credits) THEN credits
        ELSE primary_record(movie_id, details, credits)

-----------------------------------------------------------------------------
(* Catalog-B client and EnrichmentRecord *)

NA == <<"N", "/", "A">>

\* data.get(k) in ("N/A", None)
Sentinel(v) == v = None \/ v = Some(NA)

\* the loop of lines 101-107 for rt_score: the last matching entry wins
RECURSIVE rt_score(_)
rt_score(ratings) ==
    IF ratings = << >> THEN None
    ELSE IF Last(ratings).Source = "Rotten Tomatoes"
         THEN Some(str_remove(Last(ratings).Value, "%"))
         ELSE rt_score(Front(ratings))

\* the loop of lines 101-107 for mc_score
RECURSIVE mc_score(_)
mc_score(ratings) ==
    IF ratings = << >> THEN None
    ELSE IF Last(ratings).Source = "Rotten Tomatoes"
         THEN mc_score(Front(ratings))
         ELSE IF Last(ratings).Source = "Metacritic"
              THEN Some(str_split_first(Last(ratings).Value, "/"))
              ELSE mc_score(Front(ratings))

\* int(score) if score else None: None and "" are falsy
ScoreRaises(score) == score # None /\ score[1] # << >> /\ ~IntOk(score[1])

ScoreInt(score) ==
    IF score # None /\ score[1] # << >> THEN Some(IntVal(score[1])) ELSE None

OmdbKeys ==
    << "imdb_rating", "imdb_votes", "mpaa_rating", "domestic_box_office",
       "rotten_tomatoes_score", "metacritic_score", "awards_text" >>

\* lines 101-126: the enrichment dict of a matching payload, or ValueError
enrichment_record(data) ==
    LET rt == rt_score(GetOr(data, "Ratings", << >>))
        mc == mc_score(GetOr(data, "Ratings", << >>))
        rating == Get(data, "imdbRating")
        votes == Get(data, "imdbVotes")
        box == Get(data, "BoxOffice")
        votesText == str_remove(votes[1], ",")
        boxText == str_remove(str_remove(box[1], "$"), ",")
    IN  IF \/ ~Sentinel(rating) /\ ~FloatOk(rating[1])
           \/ ~Sentinel(votes) /\ ~IntOk(votesText)
           \/ ~Sentinel(box) /\ ~IntOk(boxText)
           \/ ScoreRaises(rt)
           \/ ScoreRaises(mc)
        THEN Raise("ValueError")
        ELSE
        [ imdb_rating |->
              IF ~Sentinel(rating) THEN Some(FloatVal(rating[1])) ELSE None,
          imdb_votes |->
              IF ~Sentinel(votes) THEN Some(IntVal(votesText)) ELSE None,
          mpaa_rating |-> Get(data, "Rated"),
          domestic_box_office |->
              IF ~Sentinel(box) THEN Some(IntVal(boxText)) ELSE None,
          rotten_tomatoes_score |-> ScoreInt(rt),
          metacritic_score |-> ScoreInt(mc),
          awards_text |-> Get(data, "Awards") ]

\* the lookup without the guard of lines 84-85
get_omdb_record_unguarded(imdb_id, resp) ==
    IF resp.status # HTTP_OK THEN [requested |-> TRUE, value |-> << >>]
    ELSE IF Get(resp.body, "Response") # Some("True")
         THEN [requested |-> TRUE, value |-> << >>]
         ELSE [requested |-> TRUE, value |-> enrichment_record(resp.body)]

\* get_omdb_record: whether the request of line 93 was issued, and the
\* value returned (a dict) or the exception raised
get_omdb_record(imdb_id, resp) ==
    IF ~Truthy(imdb_id) THEN [requested |-> FALSE, value |-> << >>]
    ELSE IF resp.status # HTTP_OK THEN [requested |-> TRUE, value |-> << >>]
    ELSE IF Get(resp.body, "Response") # Some("True")
         THEN [requested |-> TRUE, value |-> << >>]
         ELSE [requested |-> TRUE, value |-> enrichment_record(resp.body)]

(* Payloads of Catalog-B *)

MaxRatings == 2

RatingEntries ==
    { [Source |-> "Rotten Tomatoes", Value |-> <<"8", "7", "%">>],
      [Source |-> "Rotten Tomatoes", Value |-> NA],
      [Source |-> "Metacritic", Value |-> <<"7", "2", "/", "1", "0", "0">>],
      [Source |-> "Metacritic", Value |-> NA],
      [Source |-> "Internet Movie Database",
       Value |-> <<"7", ".", "5", "/", "1", "0">>] }

\* a key is absent, JSON null, the sentinel or well-formed text
FieldPart(key, values) ==
    { << >> } \cup { [k \in {key} |-> v] : v \in values }

OmdbBodies ==
    { Merge([Response |-> Some("True"), Awards |-> Some("Won 1 Oscar.")],
            Merge(a, Merge(b, Merge(c, Merge(d, e))))) :
        a \in FieldPart("imdbRating", {None, Some(NA), Some(<<"7", ".", "5">>)}),
        b \in FieldPart("imdbVotes", {Some(NA), Some(<<"1", ",", "2", "3", "4">>)}),
        c \in FieldPart("BoxOffice",
               {Some(NA),
                Some(<<"$", "5", "8", ",", "0", "0", "0", ",", "0", "0", "0">>)}),
        d \in FieldPart("Rated", {Some("PG-13")}),
        e \in FieldPart("Ratings", SeqsUpTo(RatingEntries, MaxRatings)) }

FullOmdbBody ==
    [ Response |-> Some("True"),
      imdbRating |-> Some(<<"7", ".", "5">>),
      imdbVotes |-> Some(<<"1", ",", "2", "3", "4">>),
      Rated |-> Some("PG-13"),
      BoxOffice |-> Some(<<"$", "5", "8", ",", "0", "0", "0", ",", "0", "0", "0">>),
      Ratings |-> << [Source |-> "Rotten Tomatoes", Value |-> <<"8", "7", "%">>],
                     [Source |-> "Metacritic",
                      Value |-> <<"7", "2", "/", "1", "0", "0">>] >>,
      Awards |-> Some("Won 1 Oscar.") ]

NoMatchBody == [Response |-> Some("False"), Error |-> Some("Incorrect IMDb ID.")]

\* a matching payload whose Rotten Tomatoes entry carries the sentinel
SentinelScoreBody ==
    [ Response |-> Some("True"),
      imdbRating |-> Some(NA),
      Ratings |-> << [Source |-> "Rotten Tomatoes", Value |-> NA] >> ]

ImdbIds == {None, Some(""), Some("tt1")}

OmdbResponses ==
    { [status |-> st, body |-> b] :
        st \in {HTTP_OK, 404},
        b \in {FullOmdbBody, NoMatchBody, SentinelScoreBody, [id |-> 0]} }

-----------------------------------------------------------------------------
(* Payloads of Catalog-A *)

OkResp(body) == [status |-> HTTP_OK, body |-> body]

FailResp == [status |-> 404, body |-> None]

FullDetails(imdb_id) ==
    [ title |-> Some("Test Film"),
      release_date |-> Some("2001-01-01"),
      budget |-> Some(100),
      revenue |-> Some(300),
      runtime |-> Some(90),
      genres |-> << [id |-> 18, name |-> "Drama"] >>,
      imdb_id |-> imdb_id,
      belongs_to_collection |-> Some("collection"),
      original_language |-> Some("en") ]

\* a details payload without any of the keys the scraper reads
SparseDetails == [id |-> 0]

MaxCast == 4

\* billing orders below, at and above the fallback value
Orders == {0, FallbackOrder, FallbackOrder + 1}

Pops == {Some(1), Some(2)}

OrderPart == { << >> } \cup { [order |-> o] : o \in Orders }

PopPart == { << >> } \cup { [popularity |-> p] : p \in Pops }

CastEntries == { Merge(o, p) : o \in OrderPart, p \in PopPart }

CastLists == SeqsUpTo(CastEntries, MaxCast)

Director == [job |-> Some("Director"), popularity |-> Some(8)]

DetailsResponses ==
    {FailResp} \cup
    { OkResp(d) : d \in {SparseDetails} \cup { FullDetails(i) : i \in ImdbIds } }

FullCredits ==
    [ cast |-> << [order |-> 1, popularity |-> Some(20)],
                  [order |-> 0, popularity |-> Some(10)] >>,
      crew |-> << [job |-> Some("Producer"), popularity |-> Some(3)], Director >> ]

\* a credits payload whose cast entry carries a null popularity
NullPopularityCredits == [cast |-> << [order |-> 0, popularity |-> None] >>]

CreditsResponses == {FailResp, OkResp(FullCredits), OkResp(NullPopularityCredits)}

PlainDetailsResponses == {FailResp, OkResp(FullDetails(Some("tt1")))}

PlainCreditsResponses == {FailResp, OkResp(FullCredits)}

PlainOmdbResponses == {OkResp(FullOmdbBody)}

MaxId == 2

Ids == 1..MaxId

MaxResults == 2

\* a discover payload: a "results" list of entries with an "id", or none
DiscoverBodies ==
    { [page |-> 1] } \cup
    { [results |-> r] : r \in SeqsUpTo({ [id |-> i] : i \in Ids }, MaxResults) }

DefaultStartYear == 2000

MaxYears == 2

Years == DefaultStartYear .. (DefaultStartYear + MaxYears - 1)

MaxPages == 2

MaxRuns == 2

\* the arguments the repeated runs are started with: one year, every page
ScrapeArgs == { << DefaultStartYear, DefaultStartYear, MaxPages >> }

-----------------------------------------------------------------------------
(* The state of the scraper between and during runs *)

NoAttempt == [kind |-> "none"]

ScraperIdle ==
    /\ pc = "idle"
    /\ runs = 0
    /\ args = << >>
    /\ year = 0
    /\ page = 0
    /\ movie_ids = {}
    /\ requests = << >>
    /\ nResults = 0
    /\ returned = {}
    /\ todo = << >>
    /\ attempts = << >>
    /\ sink = << >>
    /\ before = << >>
    /\ sinkOpen = FALSE
    /\ opened = 0
    /\ scraped = 0
    /\ failures = << >>
    /\ omdbCalls = 0
    /\ last = NoAttempt

scraperVars ==
    << pc, runs, args, year, page, movie_ids, requests, nResults, returned, todo,
       attempts, sink, before, sinkOpen, opened, scraped, failures,
       omdbCalls, last >>

-----------------------------------------------------------------------------
(* scrape *)

\* list(movie_ids): the members of the set, each once, in some order
Orderings(S) ==
    { f \in [1..Cardinality(S) -> S] : \A x \in S : \E i \in DOMAIN f : f[i] = x }

\* json.dumps(record): the key/value pairs in the dict's insertion order
json_dumps(record) ==
    LET ks == SelectSeq(TmdbKeys \o OmdbKeys, LAMBDA k : k \in DOMAIN record)
    IN  [i \in 1..Len(ks) |-> << ks[i], record[ks[i]] >>]

\* scrape(start_year, end_year, pages_per_year) is called: line 129 enters
\* discover_movies
Scrape(start_year, end_year, pages_per_year) ==
    /\ pc \in {"idle", "done", "crashed"}
    /\ runs < MaxRuns
    /\ pc' = "discover"
    /\ runs' = runs + 1
    /\ args' = [start_year |-> start_year, end_year |-> end_year,
                pages_per_year |-> pages_per_year]
    /\ year' = start_year
    /\ page' = 1
    /\ movie_ids' = {}
    /\ requests' = << >>
    /\ nResults' = 0
    /\ returned' = {}
    /\ todo' = << >>
    /\ attempts' = [i \in Ids |-> 0]
    /\ before' = sink
    /\ opened' = 0
    /\ scraped' = 0
    /\ failures' = << >>
    /\ omdbCalls' = 0
    /\ last' = NoAttempt
    /\ UNCHANGED << sink, sinkOpen, arg, ret, called >>

\* the loops of lines 29-30 are exhausted
DiscoverDone == year > args.end_year \/ args.pages_per_year < 1

\* an off-by-one over the results: the last entry is not collected
collect_but_last(ids, results) ==
    ids \cup { results[i].id : i \in 1..(Len(results) - 1) }

\* lines 42-43: every result's identifier joins the set
collect(ids, results) == ids \cup { results[i].id : i \in 1..Len(results) }

\* one iteration of the loops of lines 29-45 whose request succeeds
DiscoverPage(data) ==
    /\ pc = "discover"
    /\ ~DiscoverDone
    /\ requests' = Append(requests, [year |-> year, page |-> page, ok |-> TRUE])
    /\ LET results == GetOr(data, "results", << >>)
       IN  /\ movie_ids' = collect(movie_ids, results)
           /\ nResults' = nResults + Len(results)
           /\ returned' = returned \cup { results[i].id : i \in 1..Len(results) }
    /\ IF page < args.pages_per_year
       THEN page' = page + 1 /\ year' = year
       ELSE page' = 1 /\ year' = year + 1
    /\ UNCHANGED << pc, runs, args, todo, attempts, sink, before, sinkOpen,
                    opened, scraped, failures, omdbCalls, last, arg, ret, called >>

\* the failure of a discover request is swallowed and the loops go on
DiscoverFailsCaught ==
    /\ pc = "discover"
    /\ ~DiscoverDone
    /\ requests' = Append(requests, [year |-> year, page |-> page, ok |-> FALSE])
    /\ IF page < args.pages_per_year
       THEN page' = page + 1 /\ year' = year
       ELSE page' = 1 /\ year' = year + 1
    /\ UNCHANGED << pc, runs, args, movie_ids, nResults, returned, todo, attempts,
                    sink, before, sinkOpen, opened, scraped, failures, omdbCalls,
                    last, arg, ret, called >>

\* a discover request fails: tmdb_get raises, nothing catches it, and the
\* exception leaves discover_movies and scrape
DiscoverFails ==
    /\ pc = "discover"
    /\ ~DiscoverDone
    /\ requests' = Append(requests, [year |-> year, page |-> page, ok |-> FALSE])
    /\ IsRaise(tmdb_get(FailResp))
    /\ pc' = "crashed"
    /\ UNCHANGED << runs, args, year, page, movie_ids, nResults, returned, todo, attempts,
                    sink, before, sinkOpen, opened, scraped, failures, omdbCalls,
                    last, arg, ret, called >>

\* line 47: discover_movies returns list(movie_ids)
DiscoverReturn ==
    /\ pc = "discover"
    /\ DiscoverDone
    /\ todo' \in Orderings(movie_ids)
    /\ pc' = "discovered"
    /\ UNCHANGED << runs, args, year, page, movie_ids, requests, nResults, returned,
                    attempts, sink, before, sinkOpen, opened, scraped, failures,
                    omdbCalls, last, arg, ret, called >>

\* the sink opened for writing instead of appending
OpenSinkTruncating ==
    /\ pc = "discovered"
    /\ pc' = "enrich"
    /\ sinkOpen' = TRUE
    /\ opened' = opened + 1
    /\ sink' = << >>
    /\ year' = 0
    /\ page' = 0
    /\ requests' = << >>
    /\ nResults' = 0
    /\ returned' = {}
    /\ UNCHANGED << runs, args, movie_ids, todo, attempts, before, scraped,
                    failures, omdbCalls, last, arg, ret, called >>

\* lines 131-134: the sink is opened for appending; the frame of
\* discover_movies is gone
OpenSink ==
    /\ pc = "discovered"
    /\ pc' = "enrich"
    /\ sinkOpen' = TRUE
    /\ opened' = opened + 1
    /\ year' = 0
    /\ page' = 0
    /\ requests' = << >>
    /\ nResults' = 0
    /\ returned' = {}
    /\ UNCHANGED << runs, args, movie_ids, todo, attempts, sink, before, scraped,
                    failures, omdbCalls, last, arg, ret, called >>

\* a merge that keeps only the enrichment's fields
merged_record_right(tmdb_data, omdb_data) == omdb_data

\* line 140: {**tmdb_data, **omdb_data}
merged_record(tmdb_data, omdb_data) == Merge(tmdb_data, omdb_data)

\* lines 138-140 once line 137 has given tmdb_data (a record or the
\* exception get_tmdb_record raised) and Catalog-B's answer omdb
merge_or_raise(tmdb_data, omdb) ==
    IF IsRaise(tmdb_data)
    THEN [primary |-> "raised", requested |-> FALSE, result |-> tmdb_data]
    ELSE IF IsRaise(omdb.value)
    THEN [primary |-> "ok", requested |-> omdb.requested, result |-> omdb.value]
    ELSE [primary |-> "ok", requested |-> omdb.requested,
          result |-> merged_record(tmdb_data, omdb.value)]

\* the try body of lines 137-141 for one candidate: the merged record, or
\* the exception that leaves it (each call's result is bound once)
enrich(movie_id, detailsResp, creditsResp, omdbResp) ==
    CHOOSE e \in
        { merge_or_raise(tmdb_data,
              IF IsRaise(tmdb_data) THEN tmdb_data
              ELSE get_omdb_record(tmdb_data.imdb_id, omdbResp)) :
            tmdb_data \in {get_tmdb_record(movie_id, detailsResp, creditsResp)} } :
        TRUE

Attempt(movie_id, detailsResp, e, omdbResp, outcome) ==
    [ kind |-> "attempt", movie_id |-> movie_id, details |-> detailsResp,
      primary |-> e.primary, requested |-> e.requested,
      omdb |-> IF e.requested THEN omdbResp ELSE None,
      outcome |-> outcome ]

\* one iteration of the loop of line 135 that reaches line 143
ScrapeWrite(detailsResp, creditsResp, omdbResp) ==
    /\ pc = "enrich"
    /\ todo # << >>
    /\ \E movie_id \in {Head(todo)} :
       \E e \in {enrich(movie_id, detailsResp, creditsResp, omdbResp)} :
           /\ ~IsRaise(e.result)
           /\ sink' = Append(sink, json_dumps(e.result))
           /\ scraped' = scraped + 1
           /\ omdbCalls' = omdbCalls + (IF e.requested THEN 1 ELSE 0)
           /\ attempts' = [attempts EXCEPT ![movie_id] = @ + 1]
           /\ last' = Attempt(movie_id, detailsResp, e, omdbResp, "written")
    /\ todo' = Tail(todo)
    /\ UNCHANGED << pc, runs, args, year, page, movie_ids, requests, nResults, returned,
                    before, sinkOpen, opened, failures, arg, ret, called >>

\* a handler that leaves the loop at the first failure
ScrapeFailBreaks(detailsResp, creditsResp, omdbResp) ==
    /\ pc = "enrich"
    /\ todo # << >>
    /\ \E movie_id \in {Head(todo)} :
       \E e \in {enrich(movie_id, detailsResp, creditsResp, omdbResp)} :
           /\ IsRaise(e.result)
           /\ failures' = Append(failures,
                  [movie_id |-> movie_id, error |-> e.result.exception])
           /\ omdbCalls' = omdbCalls + (IF e.requested THEN 1 ELSE 0)
           /\ attempts' = [attempts EXCEPT ![movie_id] = @ + 1]
           /\ last' = Attempt(movie_id, detailsResp, e, omdbResp, "failed")
    /\ todo' = << >>
    /\ UNCHANGED << pc, runs, args, year, page, movie_ids, requests, nResults,
                    returned, sink, before, sinkOpen, opened, scraped, arg, ret,
                    called >>

\* a handler that reports nothing
ScrapeFailUnreported(detailsResp, creditsResp, omdbResp) ==
    /\ pc = "enrich"
    /\ todo # << >>
    /\ \E movie_id \in {Head(todo)} :
       \E e \in {enrich(movie_id, detailsResp, creditsResp, omdbResp)} :
           /\ IsRaise(e.result)
           /\ omdbCalls' = omdbCalls + (IF e.requested THEN 1 ELSE 0)
           /\ attempts' = [attempts EXCEPT ![movie_id] = @ + 1]
           /\ last' = Attempt(movie_id, detailsResp, e, omdbResp, "failed")
    /\ todo' = Tail(todo)
    /\ UNCHANGED << pc, runs, args, year, page, movie_ids, requests, nResults,
                    returned, sink, before, sinkOpen, opened, scraped, failures,
                    arg, ret, called >>

\* one iteration of the loop of line 135 that ends in the handler of
\* lines 147-148
ScrapeFail(detailsResp, creditsResp, omdbResp) ==
    /\ pc = "enrich"
    /\ todo # << >>
    /\ \E movie_id \in {Head(todo)} :
       \E e \in {enrich(movie_id, detailsResp, creditsResp, omdbResp)} :
           /\ IsRaise(e.result)
           /\ failures' = Append(failures,
                  [movie_id |-> movie_id, error |-> e.result.exception])
           /\ omdbCalls' = omdbCalls + (IF e.requested THEN 1 ELSE 0)
           /\ attempts' = [attempts EXCEPT ![movie_id] = @ + 1]
           /\ last' = Attempt(movie_id, detailsResp, e, omdbResp, "failed")
    /\ todo' = Tail(todo)
    /\ UNCHANGED << pc, runs, args, year, page, movie_ids, requests, nResults, returned,
                    sink, before, sinkOpen, opened, scraped, arg, ret, called >>

\* the loop of line 135 is exhausted: the with block closes the sink and
\* line 150 prints "Scraping complete."
ScrapeComplete ==
    /\ pc = "enrich"
    /\ todo = << >>
    /\ pc' = "done"
    /\ sinkOpen' = FALSE
    /\ UNCHANGED << runs, args, year, page, movie_ids, requests, nResults, returned, todo,
                    attempts, sink, before, opened, scraped, failures, omdbCalls,
                    last, arg, ret, called >>

Init ==
    /\ ScraperIdle
    /\ arg = None
    /\ ret = None
    /\ called = FALSE

Discover ==
    \/ \E data \in DiscoverBodies : DiscoverPage(data)
    \/ DiscoverFails
    \/ DiscoverReturn

\* the loop of scrape over repeated runs: Catalog-A answers each detail and
\* credits request with a failure or with the one well-formed payload,
\* Catalog-B with a match
Enrich ==
    \/ OpenSink
    \/ \E d \in PlainDetailsResponses, c \in PlainCreditsResponses,
          o \in PlainOmdbResponses : ScrapeWrite(d, c, o)
    \/ \E d \in PlainDetailsResponses, c \in PlainCreditsResponses,
          o \in PlainOmdbResponses : ScrapeFail(d, c, o)
    \/ ScrapeComplete

Next ==
    \/ \E a \in ScrapeArgs : Scrape(a[1], a[2], a[3])
    \/ Discover
    \/ Enrich

Spec == Init /\ [][Next]_vars

-----------------------------------------------------------------------------
(* discover_movies over every range of years and pages *)

DiscoverInit ==
    /\ \E s \in Years, e \in Years, p \in 0..MaxPages :
          /\ args = [start_year |-> s, end_year |-> e, pages_per_year |-> p]
          /\ year = s
    /\ pc = "discover"
    /\ runs = 1
    /\ page = 1
    /\ movie_ids = {}
    /\ requests = << >>
    /\ nResults = 0
    /\ returned = {}
    /\ todo = << >>
    /\ attempts = [i \in Ids |-> 0]
    /\ sink = << >>
    /\ before = << >>
    /\ sinkOpen = FALSE
    /\ opened = 0
    /\ scraped = 0
    /\ failures = << >>
    /\ omdbCalls = 0
    /\ last = NoAttempt
    /\ arg = None
    /\ ret = None
    /\ called = FALSE

DiscoverNext == Discover

DiscoverSpec == DiscoverInit /\ [][DiscoverNext]_vars

-----------------------------------------------------------------------------
(* one run from the return of discover_movies, every payload drawn *)

EnrichInit ==
    /\ \E S \in SUBSET Ids :
          /\ movie_ids = S
          /\ todo \in Orderings(S)
    /\ pc = "discovered"
    /\ runs = 1
    /\ args = [start_year |-> DefaultStartYear, end_year |-> DefaultStartYear,
               pages_per_year |-> 1]
    /\ year = DefaultStartYear + 1
    /\ page = 1
    /\ requests = << [year |-> DefaultStartYear, page |-> 1, ok |-> TRUE] >>
    /\ nResults = Cardinality(movie_ids)
    /\ returned = movie_ids
    /\ attempts = [i \in Ids |-> 0]
    /\ sink = << >>
    /\ before = << >>
    /\ sinkOpen = FALSE
    /\ opened = 0
    /\ scraped = 0
    /\ failures = << >>
    /\ omdbCalls = 0
    /\ last = NoAttempt
    /\ arg = None
    /\ ret = None
    /\ called = FALSE

\* the loop of scrape, every payload drawn
EnrichNext ==
    \/ OpenSink
    \/ \E d \in DetailsResponses, c \in CreditsResponses, o \in OmdbResponses :
          ScrapeWrite(d, c, o)
    \/ \E d \in DetailsResponses, c \in CreditsResponses, o \in OmdbResponses :
          ScrapeFail(d, c, o)
    \/ ScrapeComplete

EnrichSpec == EnrichInit /\ [][EnrichNext]_vars

\* the process runs sequentially and every HTTP call returns: a run that
\* can take a step takes it
FairEnrichSpec == EnrichSpec /\ WF_vars(EnrichNext)

-----------------------------------------------------------------------------
(* get_tmdb_record applied to one drawn credits payload *)

CastInit ==
    /\ ScraperIdle
    /\ arg \in { [cast |-> c, crew |-> << Director >>] : c \in CastLists }
    /\ ret = None
    /\ called = FALSE

CallGetTmdbRecord ==
    /\ ~called
    /\ called' = TRUE
    /\ ret' = get_tmdb_record(1, OkResp(FullDetails(Some("tt1"))), OkResp(arg))
    /\ UNCHANGED << arg, scraperVars >>

CastNext == CallGetTmdbRecord

CastSpec == CastInit /\ [][CastNext]_vars

-----------------------------------------------------------------------------
(* get_omdb_record applied to one drawn cross-reference and response *)

OmdbInit ==
    /\ ScraperIdle
    /\ arg \in { [imdb_id |-> Some("tt1"), resp |-> OkResp(b)] : b \in OmdbBodies }
              \cup { [imdb_id |-> i, resp |-> r] : i \in ImdbIds, r \in OmdbResponses }
    /\ ret = None
    /\ called = FALSE

CallGetOmdbRecord ==
    /\ ~called
    /\ called' = TRUE
    /\ ret' = get_omdb_record(arg.imdb_id, arg.resp)
    /\ UNCHANGED << arg, scraperVars >>

OmdbNext == CallGetOmdbRecord

OmdbSpec == OmdbInit /\ [][OmdbNext]_vars

-----------------------------------------------------------------------------
(* The output sink's lines *)

TmdbKeySet == { TmdbKeys[i] : i \in 1..Len(TmdbKeys) }

OmdbKeySet == { OmdbKeys[i] : i \in 1..Len(OmdbKeys) }

LineKeys(line) == { line[i][1] : i \in 1..Len(line) }

LineGet(line, k) == line[CHOOSE i \in 1..Len(line) : line[i][1] = k][2]

\* the positions of the lines the run wrote for a candidate
LinesOf(id) ==
    { i \in (Len(before) + 1)..Len(sink) : LineGet(sink[i], "movie_id") = id }

FailedIds == { failures[i].movie_id : i \in 1..Len(failures) }

Attempted == movie_ids \ { todo[i] : i \in 1..Len(todo) }

-----------------------------------------------------------------------------
(* C1 *)

\* C1: in scrape, a candidate whose Catalog-A call raises is reported as
\* one failure and gets no line; of the candidates attempted so far, the
\* lines appended are those of the candidates that did not fail, one each,
\* so a completed run over N candidates with k failures has appended
\* exactly N-k lines and reported k failures.
C1_FailuresAreSkipped ==
    /\ pc \in {"enrich", "done"} =>
          /\ Len(failures) = Cardinality(FailedIds)
          /\ FailedIds \subseteq Attempted
          /\ Len(sink) - Len(before) = Cardinality(Attempted) - Len(failures)
          /\ \A id \in FailedIds : LinesOf(id) = {}
          /\ \A id \in Attempted \ FailedIds : Cardinality(LinesOf(id)) = 1
    /\ pc = "done" =>
          Len(sink) - Len(before) = Cardinality(movie_ids) - Len(failures)
    /\ (last.kind = "attempt" /\ last.primary = "raised") =>
          /\ last.outcome = "failed"
          /\ failures # << >>
          /\ Last(failures).movie_id = last.movie_id

\* a completed run over two candidates: one line was written, then the
\* detail call of the other candidate failed
C1_Witness ==
    /\ pc = "done"
    /\ Cardinality(movie_ids) = 2
    /\ Len(failures) = 1
    /\ failures[1].error = "HTTPError"
    /\ Len(sink) = 1
    /\ last.kind = "attempt"
    /\ last.outcome = "failed"
    /\ last.details.status = 404

(* C2 *)

\* C2: a candidate whose Catalog-A detail and credits calls succeeded and
\* gave a primary record gets its line whatever Catalog-B answered.
C2_CatalogBNeverAborts ==
    (last.kind = "attempt" /\ last.primary = "ok") => last.outcome = "written"

(* C3 *)

NoCrossRefStep ==
    /\ attempts' # attempts
    /\ last'.kind = "attempt"
    /\ last'.primary = "ok"
    /\ ~Truthy(Get(last'.details.body, "imdb_id"))

\* C3 (as amended): when the detail record of a candidate has no
\* cross-reference identifier (imdb_id null, absent or empty), no request is
\* issued to Catalog-B during the candidate's enrichment, and the line
\* written for it carries none of the enrichment fields: the seven keys are
\* absent from the record, not present with null.
C3_NoCrossRefNoEnrichment ==
    [][NoCrossRefStep =>
          /\ ~last'.requested
          /\ omdbCalls' = omdbCalls
          /\ last'.outcome = "written"
          /\ sink' # sink /\ Front(sink') = sink
          /\ LineKeys(Last(sink')) \cap OmdbKeySet = {}]_vars

\* C3 (as stated): ... and the line written for it has every enrichment
\* field equal to null.
C3_NoCrossRefNullFields ==
    [][NoCrossRefStep =>
          /\ ~last'.requested
          /\ omdbCalls' = omdbCalls
          /\ last'.outcome = "written"
          /\ sink' # sink /\ Front(sink') = sink
          /\ \A k \in OmdbKeySet :
                /\ k \in LineKeys(Last(sink'))
                /\ LineGet(Last(sink'), k) = None]_vars

\* two candidates, one with an empty and one with no cross-reference, both
\* written without a request to Catalog-B
C3_Witness ==
    /\ pc = "done"
    /\ Len(sink) = 2
    /\ omdbCalls = 0
    /\ LineGet(sink[1], "imdb_id") = Some("")
    /\ LineGet(sink[2], "imdb_id") = None
    /\ last.kind = "attempt" /\ ~last.requested

(* C8 *)

\* Catalog-B was asked and answered 200 with "Response": "True"
Matched(a) ==
    /\ a.requested
    /\ a.omdb.status = 200
    /\ Get(a.omdb.body, "Response") = Some("True")

\* C8 (as amended): every line of the sink carries all PrimaryRecord keys;
\* the EnrichmentRecord keys are on a line all together or not at all, and
\* they are there exactly when Catalog-B was asked and answered with a
\* match: when Catalog-B was skipped or degraded to an empty record the
\* line has no enrichment key.
C8_PrimaryKeysAlwaysEnrichmentAllOrNone ==
    /\ \A i \in 1..Len(sink) :
          /\ TmdbKeySet \subseteq LineKeys(sink[i])
          /\ LineKeys(sink[i]) \subseteq TmdbKeySet \cup OmdbKeySet
          /\ \/ OmdbKeySet \subseteq LineKeys(sink[i])
             \/ OmdbKeySet \cap LineKeys(sink[i]) = {}
    /\ (last.kind = "attempt" /\ last.outcome = "written") =>
          /\ sink # << >>
          /\ OmdbKeySet \subseteq LineKeys(Last(sink)) <=> Matched(last)

\* C8 (as stated): every line of the sink carries the full MergedRecord
\* field set, all PrimaryRecord keys and all EnrichmentRecord keys.
C8_EveryLineHasAllKeys ==
    \A i \in 1..Len(sink) : LineKeys(sink[i]) = TmdbKeySet \cup OmdbKeySet

\* a line with every key, then a line written after Catalog-B answered 404
C8_Witness ==
    /\ Len(sink) = 2
    /\ LineKeys(sink[1]) = TmdbKeySet \cup OmdbKeySet
    /\ LineKeys(sink[2]) = TmdbKeySet
    /\ last.kind = "attempt"
    /\ last.outcome = "written"
    /\ last.requested
    /\ last.omdb.status = 404

-----------------------------------------------------------------------------
(* C5 *)

InRange == { << y, p >> : y \in args.start_year..args.end_year,
                         p \in 1..args.pages_per_year }

\* C5: discover_movies issues exactly one request for every (year, page)
\* of the range, none twice and none outside it, and when all succeed it
\* returns a collection without a repeated identifier whose members are
\* exactly the identifiers the pages carried, so no larger than the number
\* of results returned.
C5_DiscoverDeduplicates ==
    /\ pc \in {"discover", "discovered", "crashed"} =>
          /\ \A i \in 1..Len(requests) :
                << requests[i].year, requests[i].page >> \in InRange
          /\ \A i, j \in 1..Len(requests) :
                (requests[i].year = requests[j].year
                    /\ requests[i].page = requests[j].page) => i = j
    /\ pc = "discovered" =>
          /\ Len(requests) = Cardinality(InRange)
          /\ \A i, j \in 1..Len(todo) : todo[i] = todo[j] => i = j
          /\ { todo[i] : i \in 1..Len(todo) } = returned
          /\ Len(todo) <= nResults

\* two years of two pages each, more results than identifiers
C5_Witness ==
    /\ pc = "discovered"
    /\ Len(requests) = 4
    /\ Len(todo) = 2
    /\ nResults > 4

-----------------------------------------------------------------------------
(* C6 *)

\* C6: once discover_movies has returned, the run reaches completion, and
\* at completion every discovered candidate has been attempted exactly
\* once, none skipped and none retried, whichever candidates failed.
C6_RunCompletes ==
    /\ (pc = "discovered") ~> (pc = "done")
    /\ [](pc \in {"enrich", "done"} => \A id \in Ids : attempts[id] <= 1)
    /\ [](pc = "done" =>
            \A id \in Ids : attempts[id] = (IF id \in movie_ids THEN 1 ELSE 0))

\* a completed run of two candidates, the first of which failed
C6_Witness ==
    /\ pc = "done"
    /\ Cardinality(movie_ids) = 2
    /\ Len(failures) = 1
    /\ last.kind = "attempt"
    /\ last.outcome = "written"

(* C7 *)

\* C7: the sink is append-only across runs: every step leaves the lines
\* already there as they were, a successful candidate adds exactly one
\* line at the end, and nothing else changes the sink.
C7_SinkAppendOnly ==
    [][ /\ Len(sink') >= Len(sink)
        /\ SubSeq(sink', 1, Len(sink)) = sink
        /\ Len(sink') <= Len(sink) + 1
        /\ (Len(sink') = Len(sink) + 1) <=> (scraped' = scraped + 1) ]_vars

\* the second run over the same candidate appended its record again
C7_Witness ==
    /\ runs = 2
    /\ before # << >>
    /\ Len(sink) > Len(before)
    /\ \E i \in 1..Len(before) : sink[i] = Last(sink)

(* C10 *)

\* C10: a failing discover request is not isolated: the error leaves
\* scrape, the sink is not opened, no candidate is attempted and the sink
\* is as it was, whatever the earlier pages had collected.
C10_DiscoveryFailureEndsRun ==
    /\ (\E i \in 1..Len(requests) : ~requests[i].ok) => pc = "crashed"
    /\ pc = "crashed" =>
          /\ ~sinkOpen
          /\ opened = 0
          /\ sink = before
          /\ \A id \in Ids : attempts[id] = 0
          /\ scraped = 0
          /\ failures = << >>

\* the second page fails after the first had collected identifiers, with
\* lines of an earlier run in the sink
C10_Witness ==
    /\ pc = "crashed"
    /\ Len(requests) = 2
    /\ movie_ids # {}
    /\ before # << >>

-----------------------------------------------------------------------------
(* C4 *)

\* the text of the last rating entry of a source, None without one
RECURSIVE RatingText(_, _)
RatingText(ratings, source) ==
    IF ratings = << >> THEN None
    ELSE IF Last(ratings).Source = source THEN Some(Last(ratings).Value)
         ELSE RatingText(Front(ratings), source)

CalledBody == arg.resp.body

MatchedCall ==
    /\ called
    /\ Truthy(arg.imdb_id)
    /\ arg.resp.status = 200
    /\ Get(CalledBody, "Response") = Some("True")

\* C4: every normalization of a matching payload gives null for the
\* sentinel "N/A" as for a missing value, and raises nothing; the percent
\* parser gives 87 for "87%".
C4_SentinelNormalizesToNull ==
    MatchedCall =>
        /\ ~IsRaise(ret.value)
        /\ Sentinel(Get(CalledBody, "imdbRating")) => ret.value.imdb_rating = None
        /\ Sentinel(Get(CalledBody, "imdbVotes")) => ret.value.imdb_votes = None
        /\ Sentinel(Get(CalledBody, "BoxOffice")) =>
              ret.value.domestic_box_office = None
        /\ Sentinel(RatingText(GetOr(CalledBody, "Ratings", << >>), "Rotten Tomatoes"))
              => ret.value.rotten_tomatoes_score = None
        /\ Sentinel(RatingText(GetOr(CalledBody, "Ratings", << >>), "Metacritic"))
              => ret.value.metacritic_score = None
        /\ RatingText(GetOr(CalledBody, "Ratings", << >>), "Rotten Tomatoes")
              = Some(<<"8", "7", "%">>) => ret.value.rotten_tomatoes_score = Some(87)

-----------------------------------------------------------------------------
(* C9 *)

RECURSIVE SetSum(_, _)
SetSum(f, S) ==
    IF S = {} THEN 0
    ELSE LET x == CHOOSE y \in S : TRUE IN f[x] + SetSum(f, S \ {x})

CalledCast == arg.cast

CalledPop == [i \in 1..Len(CalledCast) |->
                 IF "popularity" \in DOMAIN CalledCast[i]
                 THEN CalledCast[i].popularity[1] ELSE 0]

HasOrder(i) == "order" \in DOMAIN CalledCast[i]

\* position i comes before position j when a missing order counts as 99
\* and equal orders keep the order of the list
Before99(i, j) ==
    LET ki == IF HasOrder(i) THEN CalledCast[i].order ELSE 99
        kj == IF HasOrder(j) THEN CalledCast[j].order ELSE 99
    IN  ki < kj \/ (ki = kj /\ i < j)

Chosen99 ==
    { i \in 1..Len(CalledCast) :
        Cardinality({ j \in 1..Len(CalledCast) : Before99(j, i) }) < 3 }

AggregatesOver(S) ==
    /\ ret.cast_popularity_mean =
           Some([num |-> SetSum(CalledPop, S), den |-> Cardinality(S)])
    /\ ret.cast_popularity_max # None
    /\ \A i \in S : CalledPop[i] <= ret.cast_popularity_max[1]
    /\ \E i \in S : CalledPop[i] = ret.cast_popularity_max[1]

NullIffEmpty ==
    /\ ret.cast_popularity_mean = None <=> CalledCast = << >>
    /\ ret.cast_popularity_max = None <=> CalledCast = << >>

\* C9 (as amended): get_tmdb_record computes the cast aggregates over the
\* first three entries (fewer for a shorter list) of the cast list sorted
\* ascending by billing order, an entry without a billing order sorting as
\* if its order were 99 and equal orders keeping their list order; the mean
\* is the arithmetic mean and the max the true maximum of those entries'
\* popularities (a missing popularity counting as 0), and both are null
\* iff the cast list is empty.
C9_CastAggregates ==
    called =>
        /\ ~IsRaise(ret)
        /\ NullIffEmpty
        /\ CalledCast # << >> => AggregatesOver(Chosen99)

\* position j comes strictly before position i when entries without a
\* billing order sort after every entry that has one
BeforeLast(j, i) ==
    /\ HasOrder(j)
    /\ ~HasOrder(i) \/ CalledCast[j].order < CalledCast[i].order

\* the selections of three (or fewer) entries that ordering allows
ChosenLast ==
    { S \in SUBSET (1..Len(CalledCast)) :
        /\ Cardinality(S) = (IF Len(CalledCast) < 3 THEN Len(CalledCast) ELSE 3)
        /\ \A i \in S : \A j \in (1..Len(CalledCast)) \ S : ~BeforeLast(j, i) }

\* C9 (as stated): the same, with entries without a billing order sorting
\* after every entry that has one.
C9_MissingOrderSortsLast ==
    called =>
        /\ ~IsRaise(ret)
        /\ NullIffEmpty
        /\ CalledCast # << >> => \E S \in ChosenLast : AggregatesOver(S)

\* a cast of four: an entry without a billing order is among the three
\* taken and an entry with a billing order above 99 is left out
C9_Witness ==
    /\ called
    /\ Len(CalledCast) = 4
    /\ \E i \in Chosen99 : \E j \in (1..4) \ Chosen99 :
           ~HasOrder(i) /\ HasOrder(j) /\ CalledPop[i] < CalledPop[j]
    /\ ret.cast_popularity_max = Some(2)

====
